---- MODULE Spec2Model ----
(***************************************************************************)
(* Client-side incremental response stream processing of the chat UI:      *)
(*   - the newline-delimited JSON chunk decoder (processSingleChunk,       *)
(*     processRawChunkString),                                             *)
(*   - the stream consumers handleStream and handleSSEStream,              *)
(*   - the typewriter hook useTypewriterEffect together with the effects   *)
(*     AIMessage adds on top of it.                                        *)
(* Strings are sequences of one-character strings.                         *)
(***************************************************************************)
EXTENDS Integers, Sequences, FiniteSets, Bags, TLC

(***************************************************************************)
(* Bounds                                                                  *)
(***************************************************************************)
\* longest stream text fed to the chunk decoder
MaxTextLen == 5
\* most setTimeout callbacks pending at once
MaxTimers == 2
\* message ids 1..MaxMessageId, besides the null id
MaxMessageId == 1
\* most lines of a stream text handed to handleStream or handleSSEStream
MaxLines == 2

VARIABLES
    streamText,   \* the whole text the transport will deliver
    pos,          \* number of characters of streamText delivered so far
    partial,      \* previousPartialChunk held by the caller between calls
    events,       \* every event emitted so far, in emission order
    srcs,         \* the completeChunk text each emitted event was parsed from
    lastChunk,    \* the rawChunkString of the latest call
    lastBatch,    \* the events the latest call returned
    heldBefore,   \* the partial that was handed to the latest call
    \* ---- one generator reading the transport ----
    consumer,     \* "handleStream", "handleSSEStream" or "none"
    status,       \* "running", "returned" (finished normally) or "thrown"
    lastRead,     \* the latest read result: "value", "done", "absent" or "none"
    buffer,       \* handleSSEStream's line buffer
    scans,        \* recovery scans (jsonContent.match) handleSSEStream has run
    \* ---- one AIMessage component using useTypewriterEffect ----
    mounted,                \* is a component instance mounted
    content,                \* prop content (contentString)
    isComplete,             \* prop isComplete
    shared,                 \* prop shared
    messageId,              \* prop messageId (NoId is null); chatSessionId is fixed
    displayedContent,       \* React state displayedContent
    isTypingComplete,       \* React state isTypingComplete
    timeoutRef,             \* the closure of the timer timeoutRef.current names, or NoTimer
    isTypingRef,
    lastContentRef,
    currentTypingIndexRef,
    typingDisabledRef,
    timers,                 \* the bag of pending setTimeout(typeNextChar) callbacks, by closure
    visDisplayed,           \* displayedContent as captured by handleVisibilityChange
    sessionStorage,         \* the message ids whose disableTyping key holds '1'
    docHidden,              \* document.visibilityState === "hidden"
    lastOp                  \* the event handled last

conVars == <<consumer, status, lastRead, buffer, scans>>

decVars == <<streamText, pos, partial, events, srcs, lastChunk, lastBatch, heldBefore,
             conVars>>

twVars == <<mounted, content, isComplete, shared, messageId, displayedContent,
            isTypingComplete, timeoutRef, isTypingRef, lastContentRef,
            currentTypingIndexRef, typingDisabledRef, timers, visDisplayed,
            sessionStorage, docHidden, lastOp>>

vars == <<decVars, twVars>>

(***************************************************************************)
(* Strings                                                                 *)
(***************************************************************************)
NL == "\n"

\* the characters stream texts are built from: JSON.parse restricted to
\* texts over brackets and the digits 0 and 1, plus the line delimiter
DecAlphabet == {"[", "]", "0", "1", NL}

RECURSIVE SeqsUpTo(_, _)
SeqsUpTo(S, n) ==
    IF n = 0 THEN {<<>>}
    ELSE LET shorter == SeqsUpTo(S, n - 1)
         IN  shorter \cup {Append(s, c) : s \in {t \in shorter : Len(t) = n - 1}, c \in S}

\* a string | null value
Null == [isNull |-> TRUE, str |-> <<>>]
Some(s) == [isNull |-> FALSE, str |-> s]

\* JavaScript (x || ""): null and "" both give ""
OrEmpty(p) == IF p.isNull THEN <<>> ELSE p.str

\* JavaScript !x for a string | null
Falsy(p) == p.isNull \/ p.str = <<>>

\* String.prototype.split(sep) for a one-character separator
RECURSIVE Split(_, _)
Split(s, sep) ==
    IF \A i \in 1..Len(s) : s[i] # sep THEN <<s>>
    ELSE LET k == CHOOSE i \in 1..Len(s) : s[i] = sep /\ \A j \in 1..(i - 1) : s[j] # sep
         IN  <<SubSeq(s, 1, k - 1)>> \o Split(SubSeq(s, k + 1, Len(s)), sep)

\* Array.prototype.filter((chunk) => chunk.length > 0)
RECURSIVE NonEmpty(_)
NonEmpty(ss) ==
    IF ss = <<>> THEN <<>>
    ELSE IF Len(Head(ss)) > 0 THEN <<Head(ss)>> \o NonEmpty(Tail(ss))
    ELSE NonEmpty(Tail(ss))

RECURSIVE Flatten(_)
Flatten(ss) == IF ss = <<>> THEN <<>> ELSE Head(ss) \o Flatten(Tail(ss))

(***************************************************************************)
(* JSON.parse on texts over brackets, braces, digits, double quotes, the   *)
(* colon, letters and white space (no comma, so an array holds at most one *)
(* element and an object at most one member).  A value is `d` array        *)
(* brackets around a core: a number (n >= 0), nothing (n = -1, the         *)
(* innermost array is empty), or a string or an object (n = -2).  c is the *)
(* text of the core without insignificant white space.                     *)
(***************************************************************************)
ParseFail == [ok |-> FALSE, d |-> 0, n |-> 0, c |-> <<>>]

IsDigit(c) == c \in {"0", "1", "2"}

DigitVal(c) == IF c = "1" THEN 1 ELSE IF c = "2" THEN 2 ELSE 0

RECURSIVE NumVal(_)
NumVal(s) ==
    IF s = <<>> THEN 0
    ELSE 10 * NumVal(SubSeq(s, 1, Len(s) - 1)) + DigitVal(s[Len(s)])

\* JSON number: digits, no leading zero unless the number is "0"
IsNumber(s) ==
    /\ Len(s) >= 1
    /\ \A i \in 1..Len(s) : IsDigit(s[i])
    /\ (Len(s) > 1 => s[1] # "0")

\* JSON white space
IsJsonWs(c) == c \in {" ", "\t", "\n", "\r"}

RECURSIVE TrimLeft(_)
TrimLeft(s) == IF s # <<>> /\ IsJsonWs(Head(s)) THEN TrimLeft(Tail(s)) ELSE s

RECURSIVE TrimRight(_)
TrimRight(s) ==
    IF s # <<>> /\ IsJsonWs(s[Len(s)]) THEN TrimRight(SubSeq(s, 1, Len(s) - 1)) ELSE s

\* the text without leading and trailing white space (also String.prototype.trim)
Trim(s) == TrimRight(TrimLeft(s))

Quote == "\""

\* JSON string: a quote, characters other than the quote, a quote
IsJsonString(s) ==
    /\ Len(s) >= 2
    /\ s[1] = Quote
    /\ s[Len(s)] = Quote
    /\ \A i \in 2..(Len(s) - 1) : s[i] # Quote

\* the index of the first quote of s after position 1, or 0
ClosingQuote(s) ==
    IF \E i \in 2..Len(s) : s[i] = Quote
    THEN CHOOSE i \in 2..Len(s) : s[i] = Quote /\ \A j \in 2..(i - 1) : s[j] # Quote
    ELSE 0

RECURSIVE Repeat(_, _)
Repeat(c, n) == IF n = 0 THEN <<>> ELSE <<c>> \o Repeat(c, n - 1)

\* the text of a parsed value without insignificant white space
Canon(v) == Repeat("[", v.d) \o v.c \o Repeat("]", v.d)

RECURSIVE JSONParse(_)
JSONParse(s) ==
    LET t == Trim(s)
    IN  IF IsNumber(t) THEN [ok |-> TRUE, d |-> 0, n |-> NumVal(t), c |-> t]
        ELSE IF IsJsonString(t) THEN [ok |-> TRUE, d |-> 0, n |-> -2, c |-> t]
        ELSE IF Len(t) >= 2 /\ t[1] = "[" /\ t[Len(t)] = "]"
        THEN IF Trim(SubSeq(t, 2, Len(t) - 1)) = <<>>
             THEN [ok |-> TRUE, d |-> 1, n |-> -1, c |-> <<>>]
             ELSE LET inner == JSONParse(SubSeq(t, 2, Len(t) - 1))
                  IN  IF inner.ok
                      THEN [ok |-> TRUE, d |-> inner.d + 1, n |-> inner.n, c |-> inner.c]
                      ELSE ParseFail
        ELSE IF Len(t) >= 2 /\ t[1] = "{" /\ t[Len(t)] = "}"
        THEN LET body == Trim(SubSeq(t, 2, Len(t) - 1))
                 k == ClosingQuote(body)
             IN  IF body = <<>> THEN [ok |-> TRUE, d |-> 0, n |-> -2, c |-> <<"{", "}">>]
                 ELSE IF body[1] # Quote \/ k = 0 THEN ParseFail
                 ELSE LET rest == TrimLeft(SubSeq(body, k + 1, Len(body)))
                      IN  IF rest = <<>> \/ rest[1] # ":" THEN ParseFail
                          ELSE LET member == JSONParse(Tail(rest))
                               IN  IF member.ok
                                   THEN [ok |-> TRUE, d |-> 0, n |-> -2,
                                         c |-> <<"{">> \o SubSeq(body, 1, k) \o <<":">>
                                               \o Canon(member) \o <<"}">>]
                                   ELSE ParseFail
        ELSE ParseFail

\* JavaScript truthiness of a parsed value: the number 0 and the empty string
\* are falsy
Truthy(v) == ~(v.d = 0 /\ (v.n = 0 \/ v.c = <<Quote, Quote>>))

(***************************************************************************)
(* The newline-JSON decoder                                                *)
(***************************************************************************)
\* processSingleChunk that forgets the held partial
processSingleChunkIgnoresPartial(chunk, currPartialChunk) ==
    LET parsed == JSONParse(chunk)
    IN  IF parsed.ok
        THEN [hasJson |-> TRUE, json |-> parsed, partial |-> Null, src |-> chunk]
        ELSE [hasJson |-> FALSE, json |-> ParseFail, partial |-> Some(chunk), src |-> chunk]

\* processSingleChunk: [chunkJson, null] on success, [null, completeChunk] else
processSingleChunk(chunk, currPartialChunk) ==
    LET completeChunk == OrEmpty(currPartialChunk) \o chunk
        parsed == JSONParse(completeChunk)
    IN  IF parsed.ok
        THEN [hasJson |-> TRUE, json |-> parsed, partial |-> Null, src |-> completeChunk]
        ELSE [hasJson |-> FALSE, json |-> ParseFail, partial |-> Some(completeChunk),
              src |-> completeChunk]

\* ForEachSection that puts each new event in front of the earlier ones
RECURSIVE ForEachSectionPrepends(_, _)
ForEachSectionPrepends(sections, acc) ==
    IF sections = <<>> THEN acc
    ELSE LET r == processSingleChunk(Head(sections), acc.partial)
         IN  IF r.hasJson /\ Truthy(r.json)
             THEN ForEachSectionPrepends(Tail(sections),
                      [events |-> <<r.json>> \o acc.events, partial |-> Null,
                       srcs |-> <<r.src>> \o acc.srcs])
             ELSE ForEachSectionPrepends(Tail(sections),
                      [events |-> acc.events, partial |-> r.partial, srcs |-> acc.srcs])

\* the forEach body over chunkSections; acc = [events, partial, srcs]
RECURSIVE ForEachSection(_, _)
ForEachSection(sections, acc) ==
    IF sections = <<>> THEN acc
    ELSE LET r == processSingleChunk(Head(sections), acc.partial)
         IN  IF r.hasJson /\ Truthy(r.json)
             THEN ForEachSection(Tail(sections),
                      [events |-> Append(acc.events, r.json), partial |-> Null,
                       srcs |-> Append(acc.srcs, r.src)])
             ELSE ForEachSection(Tail(sections),
                      [events |-> acc.events, partial |-> r.partial, srcs |-> acc.srcs])

processRawChunkString(rawChunkString, previousPartialChunk) ==
    IF rawChunkString = <<>>
    THEN [events |-> <<>>, partial |-> Null, srcs |-> <<>>]
    ELSE ForEachSection(NonEmpty(Split(rawChunkString, NL)),
                        [events |-> <<>>, partial |-> previousPartialChunk, srcs |-> <<>>])

(***************************************************************************)
(* String helpers of the typewriter                                        *)
(***************************************************************************)
Min(a, b) == IF a < b THEN a ELSE b

\* String.prototype.substring(a - 1, b), clipped to the string like JavaScript's
Sub(s, a, b) == IF a > Len(s) THEN <<>> ELSE SubSeq(s, a, Min(b, Len(s)))

\* String.prototype.substring(0, n)
Prefix(s, n) == SubSeq(s, 1, Min(n, Len(s)))

\* String.prototype.substring(n)
Suffix(s, n) == Sub(s, n + 1, Len(s))

\* String.prototype.startsWith
StartsWith(s, p) == Len(p) <= Len(s) /\ SubSeq(s, 1, Len(p)) = p

(***************************************************************************)
(* filterCitationsForTyping: three global regular-expression replacements. *)
(* Each XxxEnd(s, i) is the index just past the match that starts at i,    *)
(* or 0 when nothing matches there.                                        *)
(***************************************************************************)
IsDigitChar(c) == c \in {"0", "1", "2", "3", "4", "5", "6", "7", "8", "9"}

IsSpaceChar(c) == c \in {" ", "\t", "\n", "\r"}

IsParen(c) == c \in {"(", ")"}

\* [^()]* from i: the index of the first parenthesis at or after i, else Len(s) + 1
RECURSIVE SkipNonParens(_, _)
SkipNonParens(s, i) ==
    IF i > Len(s) \/ IsParen(s[i]) THEN i ELSE SkipNonParens(s, i + 1)

\* (?:[^()]|\([^()]*\))*\) from i, the opening parenthesis already consumed
RECURSIVE UrlBodyEnd(_, _)
UrlBodyEnd(s, i) ==
    IF i > Len(s) THEN 0
    ELSE IF s[i] = ")" THEN i + 1
    ELSE IF s[i] = "("
    THEN LET j == SkipNonParens(s, i + 1)
         IN  IF j <= Len(s) /\ s[j] = ")" THEN UrlBodyEnd(s, j + 1) ELSE 0
    ELSE UrlBodyEnd(s, i + 1)

\* \((?:[^()]|\([^()]*\))*\) from i
UrlEnd(s, i) == IF i <= Len(s) /\ s[i] = "(" THEN UrlBodyEnd(s, i + 1) ELSE 0

\* [\d,\s-]* from i
RECURSIVE SkipListChars(_, _)
SkipListChars(s, i) ==
    IF i <= Len(s) /\ (IsDigitChar(s[i]) \/ IsSpaceChar(s[i]) \/ s[i] \in {",", "-"})
    THEN SkipListChars(s, i + 1) ELSE i

\* \[\[[\d,\s-]+\]\]\(url\) from i
DoubleCitationEnd(s, i) ==
    IF i + 1 <= Len(s) /\ s[i] = "[" /\ s[i + 1] = "["
    THEN LET j == SkipListChars(s, i + 2)
         IN  IF j > i + 2 /\ j + 1 <= Len(s) /\ s[j] = "]" /\ s[j + 1] = "]"
             THEN UrlEnd(s, j + 2) ELSE 0
    ELSE 0

\* \d* from i
RECURSIVE SkipDigits(_, _)
SkipDigits(s, i) ==
    IF i <= Len(s) /\ IsDigitChar(s[i]) THEN SkipDigits(s, i + 1) ELSE i

\* \s* from i
RECURSIVE SkipSpaces(_, _)
SkipSpaces(s, i) ==
    IF i <= Len(s) /\ IsSpaceChar(s[i]) THEN SkipSpaces(s, i + 1) ELSE i

\* \d+(?:[,\s-]\s*\d+)* from i: the index past the longest number list, 0 if none
RECURSIVE NumberListEnd(_, _)
NumberListEnd(s, i) ==
    LET j == SkipDigits(s, i)
    IN  IF j = i THEN 0
        ELSE IF j <= Len(s) /\ (IsSpaceChar(s[j]) \/ s[j] \in {",", "-"})
        THEN LET k == NumberListEnd(s, SkipSpaces(s, j + 1))
             IN  IF k = 0 THEN j ELSE k
        ELSE j

\* \[(\d+(?:[,\s-]\s*\d+)*)\]\(url\) from i
SingleCitationEnd(s, i) ==
    IF i <= Len(s) /\ s[i] = "["
    THEN LET j == NumberListEnd(s, i + 1)
         IN  IF j # 0 /\ j <= Len(s) /\ s[j] = "]" THEN UrlEnd(s, j + 1) ELSE 0
    ELSE 0

\* [^\s)]* from i
RECURSIVE SkipUrlChars(_, _)
SkipUrlChars(s, i) ==
    IF i <= Len(s) /\ ~IsSpaceChar(s[i]) /\ s[i] # ")" THEN SkipUrlChars(s, i + 1) ELSE i

\* \((https?:\/\/[^\s)]+)\) from i
OrphanUrlEnd(s, i) ==
    LET http == <<"(", "h", "t", "t", "p">>
        afterScheme ==
            IF Sub(s, i, i + 4) # http THEN 0
            ELSE IF Sub(s, i + 5, i + 7) = <<":", "/", "/">> THEN i + 8
            ELSE IF Sub(s, i + 5, i + 8) = <<"s", ":", "/", "/">> THEN i + 9
            ELSE 0
    IN  IF afterScheme = 0 THEN 0
        ELSE LET j == SkipUrlChars(s, afterScheme)
             IN  IF j > afterScheme /\ j <= Len(s) /\ s[j] = ")" THEN j + 1 ELSE 0

\* s.replace(/re/g, ''): left to right, the matched spans removed
RECURSIVE RemoveDouble(_, _)
RemoveDouble(s, i) ==
    IF i > Len(s) THEN <<>>
    ELSE LET e == DoubleCitationEnd(s, i)
         IN  IF e # 0 THEN RemoveDouble(s, e) ELSE <<s[i]>> \o RemoveDouble(s, i + 1)

RECURSIVE RemoveSingle(_, _)
RemoveSingle(s, i) ==
    IF i > Len(s) THEN <<>>
    ELSE LET e == SingleCitationEnd(s, i)
         IN  IF e # 0 THEN RemoveSingle(s, e) ELSE <<s[i]>> \o RemoveSingle(s, i + 1)

\* s.replace(/(^|[^\]])\((https?:\/\/[^\s)]+)\)/g, '$1'); `from` is where the
\* previous match ended: the character before a match must not be consumed
\* by that previous match
RECURSIVE RemoveOrphan(_, _, _)
RemoveOrphan(s, i, from) ==
    IF i > Len(s) THEN <<>>
    ELSE IF i = 1 /\ OrphanUrlEnd(s, 1) # 0
    THEN RemoveOrphan(s, OrphanUrlEnd(s, 1), OrphanUrlEnd(s, 1))
    ELSE IF i >= from /\ s[i] # "]" /\ OrphanUrlEnd(s, i + 1) # 0
    THEN <<s[i]>> \o RemoveOrphan(s, OrphanUrlEnd(s, i + 1), OrphanUrlEnd(s, i + 1))
    ELSE <<s[i]>> \o RemoveOrphan(s, i + 1, from)

filterCitationsForTyping(s) ==
    RemoveOrphan(RemoveSingle(RemoveDouble(s, 1), 1), 1, 1)

(***************************************************************************)
(* The typewriter hook.  One component instance is a record `w` of its     *)
(* props, React state, refs, pending timers and the per-tab store; every   *)
(* effect and callback is an operator from records to records.  While the  *)
(* effects of one render run, w.rDisplayed and w.rComplete are the state   *)
(* values of that render (what the closures created in it see), and        *)
(* w.displayedContent and w.isTypingComplete are the latest values handed  *)
(* to the state setters, which the next render shows.                      *)
(***************************************************************************)
NoId == 0

MessageIds == 0..MaxMessageId

\* the texts a message can hold: the prefixes of a text with a citation
\* marker in it, and of an unrelated text
CitedText == <<"[", "1", "]", "(", ")", "b">>

OtherText == <<"x", "y">>

Contents ==
    {Prefix(CitedText, n) : n \in {0, 4, 6}} \cup {Prefix(OtherText, 1)}

\* no timer (timeoutRef.current null, or the id of a timer that has fired)
NoTimer == [fullContent |-> <<>>, currentIndex |-> -1, tc |-> FALSE]

\* the state of a component that is not mounted, and of a fresh instance:
\* useState("") / useState(false) / useRef(...) initial values
Fresh(store) ==
    [content |-> <<>>, isComplete |-> FALSE, shared |-> FALSE, messageId |-> NoId,
     displayedContent |-> <<>>, isTypingComplete |-> FALSE,
     rDisplayed |-> <<>>, rComplete |-> FALSE,
     timeoutRef |-> NoTimer, isTypingRef |-> FALSE, lastContentRef |-> <<>>,
     currentTypingIndexRef |-> 0, typingDisabledRef |-> FALSE,
     timers |-> EmptyBag, visDisplayed |-> <<>>,
     sessionStorage |-> store, overflow |-> FALSE]

\* a render: the closures created from now on see the committed state
Render(w) ==
    [w EXCEPT !.rDisplayed = w.displayedContent, !.rComplete = w.isTypingComplete]

\* clearTimeout(timeoutRef.current); timeoutRef.current = null
ClearTimeoutRef(w) ==
    IF w.timeoutRef = NoTimer THEN w
    ELSE [w EXCEPT !.timers = @ (-) SetToBag({w.timeoutRef}), !.timeoutRef = NoTimer]

\* typeNextChar without its isTypingRef.current test
typeNextCharNoRefTest(w, clo) ==
    IF clo.currentIndex < Len(clo.fullContent) /\ ~clo.tc
    THEN LET currentIndex == clo.currentIndex + 1
             fullContent == filterCitationsForTyping(clo.fullContent)
             w1 == [w EXCEPT !.currentTypingIndexRef = currentIndex,
                             !.displayedContent = Prefix(fullContent, currentIndex)]
         IN  IF currentIndex < Len(fullContent)
             THEN LET next == [fullContent |-> fullContent,
                                currentIndex |-> currentIndex, tc |-> clo.tc]
                  IN  [w1 EXCEPT !.timers = @ (+) SetToBag({next}),
                                 !.timeoutRef = next,
                                 !.overflow = BagCardinality(w.timers) >= MaxTimers]
             ELSE [w1 EXCEPT !.isTypingRef = FALSE]
    ELSE [w EXCEPT !.isTypingRef = FALSE]

\* typeNextChar that also marks typing complete when it reaches the end
typeNextCharCompletes(w, clo) ==
    IF clo.currentIndex < Len(clo.fullContent) /\ ~clo.tc /\ w.isTypingRef
    THEN LET currentIndex == clo.currentIndex + 1
             fullContent == filterCitationsForTyping(clo.fullContent)
             w1 == [w EXCEPT !.currentTypingIndexRef = currentIndex,
                             !.displayedContent = Prefix(fullContent, currentIndex)]
         IN  IF currentIndex < Len(fullContent)
             THEN LET next == [fullContent |-> fullContent,
                                currentIndex |-> currentIndex, tc |-> clo.tc]
                  IN  [w1 EXCEPT !.timers = @ (+) SetToBag({next}),
                                 !.timeoutRef = next,
                                 !.overflow = BagCardinality(w.timers) >= MaxTimers]
             ELSE [w1 EXCEPT !.isTypingRef = FALSE, !.isTypingComplete = TRUE]
    ELSE [w EXCEPT !.isTypingRef = FALSE]

\* typeNextChar with the closure clo = (fullContent, currentIndex,
\* isTypingComplete of the render that created it)
typeNextChar(w, clo) ==
    IF clo.currentIndex < Len(clo.fullContent) /\ ~clo.tc /\ w.isTypingRef
    THEN LET currentIndex == clo.currentIndex + 1
             fullContent == filterCitationsForTyping(clo.fullContent)
             w1 == [w EXCEPT !.currentTypingIndexRef = currentIndex,
                             !.displayedContent = Prefix(fullContent, currentIndex)]
         IN  IF currentIndex < Len(fullContent)
             THEN LET next == [fullContent |-> fullContent,
                                currentIndex |-> currentIndex, tc |-> clo.tc]
                  IN  [w1 EXCEPT !.timers = @ (+) SetToBag({next}),
                                 !.timeoutRef = next,
                                 !.overflow = BagCardinality(w.timers) >= MaxTimers]
             ELSE [w1 EXCEPT !.isTypingRef = FALSE]
    ELSE [w EXCEPT !.isTypingRef = FALSE]

continueTyping(w, fullContent, startIndex) ==
    IF w.isTypingRef THEN w
    ELSE typeNextChar([w EXCEPT !.isTypingRef = TRUE],
                      [fullContent |-> fullContent, currentIndex |-> startIndex,
                       tc |-> w.rComplete])

startTyping(w, fullContent, startIndex) ==
    IF w.isTypingRef THEN w
    ELSE continueTyping([w EXCEPT !.isTypingRef = TRUE,
                                  !.currentTypingIndexRef = startIndex],
                        fullContent, startIndex)

\* a mount effect that does not read the store
MountEffectIgnoresFlag(w) == w

\* the mount effect (deps [])
MountEffect(w) ==
    IF w.messageId # NoId /\ w.messageId \in w.sessionStorage
    THEN [w EXCEPT !.typingDisabledRef = TRUE,
                   !.displayedContent = w.content,
                   !.isTypingComplete = IF w.isComplete THEN TRUE ELSE @,
                   !.lastContentRef = w.content]
    ELSE w

\* the content effect (deps [content, isComplete])
ContentEffect(w) ==
    IF w.typingDisabledRef
    THEN [w EXCEPT !.displayedContent = w.content,
                   !.lastContentRef = w.content,
                   !.isTypingComplete = IF w.isComplete THEN TRUE ELSE @]
    ELSE IF w.content # w.lastContentRef /\ ~StartsWith(w.content, w.lastContentRef)
    THEN LET w1 == [w EXCEPT !.displayedContent = <<>>,
                             !.isTypingComplete = FALSE,
                             !.isTypingRef = FALSE,
                             !.currentTypingIndexRef = 0,
                             !.lastContentRef = w.content]
         IN  IF Len(w.content) > 0 THEN startTyping(w1, w.content, 0) ELSE w1
    ELSE IF Len(w.content) > Len(w.lastContentRef) /\ StartsWith(w.content, w.lastContentRef)
    THEN LET newContent == Suffix(w.content, w.currentTypingIndexRef)
             w1 == IF Len(newContent) > 0
                   THEN continueTyping(w, w.content, w.currentTypingIndexRef)
                   ELSE w
         IN  [w1 EXCEPT !.lastContentRef = w.content]
    ELSE w

\* a cleanup that removes the flag of an instance whose typing was disabled
UnmountCleanupClearsDisabled(w, id, typingComplete) ==
    IF id = NoId THEN w
    ELSE IF ~typingComplete /\ ~w.typingDisabledRef
    THEN [w EXCEPT !.sessionStorage = @ \cup {id}]
    ELSE [w EXCEPT !.sessionStorage = @ \ {id}]

\* the cleanup of the unmount effect (deps [chatSessionId, messageId,
\* isTypingComplete]), run with the message id and isTypingComplete of the
\* render that installed it
UnmountCleanup(w, id, typingComplete) ==
    IF id = NoId THEN w
    ELSE IF ~typingComplete
    THEN [w EXCEPT !.sessionStorage = @ \cup {id}]
    ELSE [w EXCEPT !.sessionStorage = @ \ {id}]

showFinalContentWithCitations(w) ==
    [w EXCEPT !.displayedContent = w.content,
              !.isTypingComplete = TRUE,
              !.currentTypingIndexRef = Len(w.content)]

\* the completion effect of the hook (deps [isComplete, shared, content, ...])
CompletionEffect(w) ==
    IF w.isComplete \/ w.shared
    THEN showFinalContentWithCitations([ClearTimeoutRef(w) EXCEPT !.isTypingRef = FALSE])
    ELSE w

\* the visibility effect (deps [content, isTypingComplete]) installs a handler
\* that closes over the displayedContent of the render it runs in
VisibilityEffect(w) == [w EXCEPT !.visDisplayed = w.rDisplayed]

\* AIMessage: the stop-generating effect once stopGeneratingDisplayString is
\* true, and the message-switcher effect once isMessageSwitcherComplete is
\* true, both set the same two states
StopEffect(w) ==
    [w EXCEPT !.displayedContent = w.content, !.isTypingComplete = TRUE]

\* AIMessage: the completion effect (deps [isComplete, contentString, ...])
AICompletionEffect(w) ==
    IF w.isComplete
    THEN [w EXCEPT !.displayedContent = w.content, !.isTypingComplete = TRUE]
    ELSE w

\* the render that follows the state updates of a batch: displayedContent is
\* in no dependency list; a changed isTypingComplete runs the unmount
\* effect's cleanup, with the values of the previous render, and reinstalls
\* the visibility handler
StateRender(w) ==
    IF w.isTypingComplete # w.rComplete
    THEN VisibilityEffect(Render(UnmountCleanup(w, w.messageId, w.rComplete)))
    ELSE Render(w)

\* handleVisibilityChange, hidden branch; the handler sees the content and
\* isTypingComplete of the latest render and the displayedContent it captured
HiddenHandler(w) ==
    IF w.isTypingComplete \/ w.content = w.visDisplayed
    THEN [w EXCEPT !.displayedContent = w.content, !.isTypingComplete = TRUE]
    ELSE w

\* handleVisibilityChange, visible branch
VisibleHandler(w) ==
    IF ~w.isTypingComplete /\ Len(w.content) > Len(w.visDisplayed) /\ ~w.isTypingRef
    THEN LET w1 == [ClearTimeoutRef(w) EXCEPT !.isTypingRef = FALSE]
             remainingContent == Suffix(w.content, Len(w.visDisplayed))
         IN  IF Len(remainingContent) > 0
             THEN startTyping(w1, w.content, Len(w.visDisplayed))
             ELSE w1
    ELSE w

(***************************************************************************)
(* The component's events.  Each action is one event together with the     *)
(* renders and effects React runs for it before the next event is handled. *)
(***************************************************************************)
\* the mounted instance as a record
Cur ==
    [content |-> content, isComplete |-> isComplete, shared |-> shared,
     messageId |-> messageId,
     displayedContent |-> displayedContent, isTypingComplete |-> isTypingComplete,
     rDisplayed |-> displayedContent, rComplete |-> isTypingComplete,
     timeoutRef |-> timeoutRef, isTypingRef |-> isTypingRef,
     lastContentRef |-> lastContentRef,
     currentTypingIndexRef |-> currentTypingIndexRef,
     typingDisabledRef |-> typingDisabledRef,
     timers |-> timers, visDisplayed |-> visDisplayed,
     sessionStorage |-> sessionStorage, overflow |-> FALSE]

\* the next state is the record w
Becomes(w) ==
    /\ ~w.overflow
    /\ content' = w.content
    /\ isComplete' = w.isComplete
    /\ shared' = w.shared
    /\ messageId' = w.messageId
    /\ displayedContent' = w.displayedContent
    /\ isTypingComplete' = w.isTypingComplete
    /\ timeoutRef' = w.timeoutRef
    /\ isTypingRef' = w.isTypingRef
    /\ lastContentRef' = w.lastContentRef
    /\ currentTypingIndexRef' = w.currentTypingIndexRef
    /\ typingDisabledRef' = w.typingDisabledRef
    /\ timers' = w.timers
    /\ visDisplayed' = w.visDisplayed
    /\ sessionStorage' = w.sessionStorage

\* the first render of a new instance and all of its effects, in the order
\* the hook and AIMessage declare them
Mount(c, ic, sh, id) ==
    /\ ~mounted
    /\ mounted' = TRUE
    /\ LET w0 == Render([Fresh(sessionStorage) EXCEPT !.content = c, !.isComplete = ic,
                                                      !.shared = sh, !.messageId = id])
       IN  Becomes(StateRender(AICompletionEffect(VisibilityEffect(
               CompletionEffect(ContentEffect(MountEffect(w0)))))))
    /\ lastOp' = "mount"
    /\ UNCHANGED <<docHidden, decVars>>

\* the parent renders the message with another content or completion flag
Update(c, ic) ==
    /\ mounted
    /\ <<c, ic>> # <<content, isComplete>>
    /\ LET w0 == Render([Cur EXCEPT !.content = c, !.isComplete = ic])
           w1 == CompletionEffect(ContentEffect(w0))
           w2 == IF c # content THEN VisibilityEffect(w1) ELSE w1
       IN  Becomes(StateRender(AICompletionEffect(w2)))
    /\ lastOp' = "update"
    /\ UNCHANGED <<mounted, docHidden, decVars>>

\* a pending setTimeout(typeNextChar, 3.5) fires: one with the closure clo,
\* which is the timer timeoutRef names (named = TRUE) or another one
Tick(clo, named) ==
    /\ mounted
    /\ BagIn(clo, timers)
    /\ named => timeoutRef = clo
    /\ ~named => (timeoutRef # clo \/ CopiesIn(clo, timers) > 1)
    /\ LET w0 == [Cur EXCEPT !.timers = @ (-) SetToBag({clo}),
                             !.timeoutRef = IF named THEN NoTimer ELSE @]
       IN  Becomes(StateRender(typeNextChar(w0, clo)))
    /\ lastOp' = "tick"
    /\ UNCHANGED <<mounted, docHidden, decVars>>

\* visibilitychange to hidden
Hidden ==
    /\ ~docHidden
    /\ docHidden' = TRUE
    /\ IF mounted THEN Becomes(StateRender(HiddenHandler(Cur)))
       ELSE Becomes(Cur)
    /\ lastOp' = "hidden"
    /\ UNCHANGED <<mounted, decVars>>

\* visibilitychange to visible
Visible ==
    /\ docHidden
    /\ docHidden' = FALSE
    /\ IF mounted THEN Becomes(StateRender(VisibleHandler(Cur)))
       ELSE Becomes(Cur)
    /\ lastOp' = "visible"
    /\ UNCHANGED <<mounted, decVars>>

\* the parent sets stopGeneratingDisplayString; the effect sets it back
StopGenerating ==
    /\ mounted
    /\ Becomes(StateRender(StopEffect(Cur)))
    /\ lastOp' = "stop"
    /\ UNCHANGED <<mounted, docHidden, decVars>>

\* the message switcher sets isMessageSwitcherComplete; the effect sets it back
MessageSwitcherComplete ==
    /\ mounted
    /\ Becomes(StateRender(StopEffect(Cur)))
    /\ lastOp' = "switch"
    /\ UNCHANGED <<mounted, docHidden, decVars>>

\* the parent renders the mounted component with another messageId: only the
\* unmount effect depends on it
ChangeMessageId(id) ==
    /\ mounted
    /\ id # messageId
    /\ Becomes([UnmountCleanup(Cur, messageId, isTypingComplete) EXCEPT !.messageId = id])
    /\ lastOp' = "key"
    /\ UNCHANGED <<mounted, docHidden, decVars>>

\* the component unmounts: the cleanups run and the instance is discarded;
\* timers it left behind act on the discarded instance only
Unmount ==
    /\ mounted
    /\ mounted' = FALSE
    /\ Becomes(Fresh(UnmountCleanup(Cur, messageId, isTypingComplete).sessionStorage))
    /\ lastOp' = "unmount"
    /\ UNCHANGED <<docHidden, decVars>>

\* no generator is running
ConIdle ==
    /\ consumer = "none"
    /\ status = "running"
    /\ lastRead = "none"
    /\ buffer = <<>>
    /\ scans = 0

DecIdle ==
    /\ streamText = <<>>
    /\ pos = 0
    /\ partial = Null
    /\ events = <<>>
    /\ srcs = <<>>
    /\ lastChunk = <<>>
    /\ lastBatch = <<>>
    /\ heldBefore = Null
    /\ ConIdle

TwIdle ==
    /\ mounted = FALSE
    /\ content = <<>>
    /\ isComplete = FALSE
    /\ shared = FALSE
    /\ messageId = NoId
    /\ displayedContent = <<>>
    /\ isTypingComplete = FALSE
    /\ timeoutRef = NoTimer
    /\ isTypingRef = FALSE
    /\ lastContentRef = <<>>
    /\ currentTypingIndexRef = 0
    /\ typingDisabledRef = FALSE
    /\ timers = EmptyBag
    /\ visDisplayed = <<>>
    /\ sessionStorage = {}
    /\ docHidden = FALSE
    /\ lastOp = "init"

Init == TwIdle /\ DecIdle

Next ==
    \/ \E c \in Contents, ic \in BOOLEAN, sh \in BOOLEAN, id \in MessageIds :
           Mount(c, ic, sh, id)
    \/ \E c \in Contents, ic \in BOOLEAN : Update(c, ic)
    \/ \E clo \in BagToSet(timers), named \in BOOLEAN : Tick(clo, named)
    \/ Hidden
    \/ Visible
    \/ StopGenerating
    \/ MessageSwitcherComplete
    \/ \E id \in MessageIds : ChangeMessageId(id)
    \/ Unmount

Spec == Init /\ [][Next]_vars

(***************************************************************************)
(* Feeding a stream text to the decoder chunk by chunk                     *)
(***************************************************************************)
DecInit ==
    /\ streamText \in SeqsUpTo(DecAlphabet, MaxTextLen)
    /\ pos = 0
    /\ partial = Null
    /\ events = <<>>
    /\ srcs = <<>>
    /\ lastChunk = <<>>
    /\ lastBatch = <<>>
    /\ heldBefore = Null
    /\ ConIdle
    /\ TwIdle

\* one processRawChunkString call on the next k characters (k = 0: an empty chunk)
Feed(k) ==
    /\ pos + k <= Len(streamText)
    /\ LET chunk == SubSeq(streamText, pos + 1, pos + k)
           r == processRawChunkString(chunk, partial)
       IN  /\ pos' = pos + k
           /\ partial' = r.partial
           /\ events' = events \o r.events
           /\ srcs' = srcs \o r.srcs
           /\ lastChunk' = chunk
           /\ lastBatch' = r.events
           /\ heldBefore' = partial
    /\ UNCHANGED <<streamText, conVars, twVars>>

DecNext == \E k \in 0..MaxTextLen : Feed(k)

SpecDecoder == DecInit /\ [][DecNext]_vars

(***************************************************************************)
(* handleSSEStream: line decoding                                          *)
(***************************************************************************)
DataPrefix == <<"d", "a", "t", "a", ":", " ">>

\* Array.prototype.pop() || "": the last element of a split (never empty)
LastOf(ss) == ss[Len(ss)]

\* the elements before the last
Front(ss) == SubSeq(ss, 1, Len(ss) - 1)

\* the index of the first brace at or after i, or 0
NextBrace(s, i) ==
    IF \E j \in i..Len(s) : s[j] \in {"{", "}"}
    THEN CHOOSE j \in i..Len(s) :
             s[j] \in {"{", "}"} /\ \A m \in i..(j - 1) : s[m] \notin {"{", "}"}
    ELSE 0

\* MatchBraceSpans that stops after the first span
RECURSIVE MatchFirstSpanOnly(_, _)
MatchFirstSpanOnly(s, i) ==
    IF i > Len(s) THEN <<>>
    ELSE IF s[i] # "{" THEN MatchFirstSpanOnly(s, i + 1)
    ELSE LET j == NextBrace(s, i + 1)
         IN  IF j # 0 /\ s[j] = "}" THEN <<SubSeq(s, i, j)>>
             ELSE MatchFirstSpanOnly(s, i + 1)

\* jsonContent.match(/\{[^{}]*\}/g), scanning from index i; null and no match
\* are both the empty sequence
RECURSIVE MatchBraceSpans(_, _)
MatchBraceSpans(s, i) ==
    IF i > Len(s) THEN <<>>
    ELSE IF s[i] # "{" THEN MatchBraceSpans(s, i + 1)
    ELSE LET j == NextBrace(s, i + 1)
         IN  IF j # 0 /\ s[j] = "}"
             THEN <<SubSeq(s, i, j)>> \o MatchBraceSpans(s, j + 1)
             ELSE MatchBraceSpans(s, i + 1)

\* the inner loop: every extracted span that parses is yielded, the others
\* are logged and skipped
RECURSIVE ParseEach(_)
ParseEach(jsonObjects) ==
    IF jsonObjects = <<>> THEN <<>>
    ELSE LET data == JSONParse(Head(jsonObjects))
         IN  (IF data.ok THEN <<data>> ELSE <<>>) \o ParseEach(Tail(jsonObjects))

NoYield == [events |-> <<>>, scans |-> 0]

\* ParseOrRecover that hands on the text it could not decode as an event
ParseOrRecoverYieldsFailure(jsonContent) ==
    LET data == JSONParse(jsonContent)
        found == ParseEach(MatchBraceSpans(jsonContent, 1))
    IN  IF data.ok THEN [events |-> <<data>>, scans |-> 0]
        ELSE [events |-> IF found = <<>> THEN <<ParseFail>> ELSE found, scans |-> 1]

\* the try / catch around JSON.parse(jsonContent) and the fallback
ParseOrRecover(jsonContent) ==
    LET data == JSONParse(jsonContent)
    IN  IF data.ok THEN [events |-> <<data>>, scans |-> 0]
        ELSE [events |-> ParseEach(MatchBraceSpans(jsonContent, 1)), scans |-> 1]

\* DecodeLine that runs the recovery scan on every data line
DecodeLineAlwaysScans(line) ==
    IF Trim(line) = <<>> THEN NoYield
    ELSE IF StartsWith(line, DataPrefix)
    THEN LET data == JSONParse(Suffix(line, 6))
         IN  [events |-> (IF data.ok THEN <<data>> ELSE <<>>)
                             \o ParseEach(MatchBraceSpans(Suffix(line, 6), 1)),
              scans |-> 1]
    ELSE NoYield

\* the body of `for (const line of lines)`
DecodeLine(line) ==
    IF Trim(line) = <<>> THEN NoYield
    ELSE IF StartsWith(line, DataPrefix) THEN ParseOrRecover(Suffix(line, 6))
    ELSE NoYield

\* the loop over the complete lines; a line without the blank of the prefix
\* is decoded too
RECURSIVE DecodeLinesLoosePrefix(_)
DecodeLinesLoosePrefix(lines) ==
    IF lines = <<>> THEN NoYield
    ELSE LET l == Head(lines)
             h == IF StartsWith(l, Front(DataPrefix)) /\ ~StartsWith(l, DataPrefix)
                  THEN ParseOrRecover(Suffix(l, 5)) ELSE DecodeLine(l)
             t == DecodeLinesLoosePrefix(Tail(lines))
         IN  [events |-> h.events \o t.events, scans |-> h.scans + t.scans]

\* `for (const line of lines)`
RECURSIVE DecodeLines(_)
DecodeLines(lines) ==
    IF lines = <<>> THEN NoYield
    ELSE LET h == DecodeLine(Head(lines))
             t == DecodeLines(Tail(lines))
         IN  [events |-> h.events \o t.events, scans |-> h.scans + t.scans]

\* FlushBuffer that decodes nothing
FlushNothing(buf) == NoYield

\* the code after the loop: the remaining buffer
FlushBuffer(buf) ==
    IF Trim(buf) # <<>>
    THEN IF StartsWith(buf, DataPrefix) THEN ParseOrRecover(Suffix(buf, 6))
         ELSE NoYield
    ELSE NoYield

(***************************************************************************)
(* The generators.  One step is one awaited read together with everything  *)
(* the generator yields before it awaits the next read or finishes.        *)
(***************************************************************************)
\* handleStreamStep that treats an absent read result as the end of the stream
handleStreamStepAbsentIsDone(read, chunk, prev) ==
    IF read = "value"
    THEN LET r == processRawChunkString(chunk, prev)
         IN  IF r.events = <<>> /\ Falsy(r.partial)
             THEN [status |-> "returned", partial |-> prev, batch |-> <<>>, srcs |-> <<>>]
             ELSE [status |-> "running", partial |-> r.partial, batch |-> r.events,
                   srcs |-> r.srcs]
    ELSE [status |-> "returned", partial |-> prev, batch |-> <<>>, srcs |-> <<>>]

\* handleStreamStep that treats done as an error
handleStreamStepDoneThrows(read, chunk, prev) ==
    IF read = "absent" \/ read = "done"
    THEN [status |-> "thrown", partial |-> prev, batch |-> <<>>, srcs |-> <<>>]
    ELSE LET r == processRawChunkString(chunk, prev)
         IN  IF r.events = <<>> /\ Falsy(r.partial)
             THEN [status |-> "returned", partial |-> prev, batch |-> <<>>, srcs |-> <<>>]
             ELSE [status |-> "running", partial |-> r.partial, batch |-> r.events,
                   srcs |-> r.srcs]

\* one iteration of handleStream's loop on a read result
handleStreamStep(read, chunk, prev) ==
    IF read = "absent"
    THEN [status |-> "thrown", partial |-> prev, batch |-> <<>>, srcs |-> <<>>]
    ELSE IF read = "done"
    THEN [status |-> "returned", partial |-> prev, batch |-> <<>>, srcs |-> <<>>]
    ELSE LET r == processRawChunkString(chunk, prev)
         IN  IF r.events = <<>> /\ Falsy(r.partial)
             THEN [status |-> "returned", partial |-> prev, batch |-> <<>>, srcs |-> <<>>]
             ELSE [status |-> "running", partial |-> r.partial, batch |-> r.events,
                   srcs |-> r.srcs]

\* handleSSEStreamStep that does not keep the text after the last newline
handleSSEStreamStepDropsBuffer(read, chunk, buf) ==
    IF read = "absent"
    THEN [status |-> "thrown", buffer |-> buf, batch |-> <<>>, scans |-> 0]
    ELSE IF read = "done"
    THEN LET r == FlushBuffer(buf)
         IN  [status |-> "returned", buffer |-> buf, batch |-> r.events, scans |-> r.scans]
    ELSE LET lines == Split(chunk, NL)
             r == DecodeLines(Front(lines))
         IN  [status |-> "running", buffer |-> LastOf(lines), batch |-> r.events,
              scans |-> r.scans]

\* one iteration of handleSSEStream's loop on a read result; done runs the
\* code after the loop
handleSSEStreamStep(read, chunk, buf) ==
    IF read = "absent"
    THEN [status |-> "thrown", buffer |-> buf, batch |-> <<>>, scans |-> 0]
    ELSE IF read = "done"
    THEN LET r == FlushBuffer(buf)
         IN  [status |-> "returned", buffer |-> buf, batch |-> r.events, scans |-> r.scans]
    ELSE LET lines == Split(buf \o chunk, NL)
             r == DecodeLines(Front(lines))
         IN  [status |-> "running", buffer |-> LastOf(lines), batch |-> r.events,
              scans |-> r.scans]

(***************************************************************************)
(* Stream texts handed to the generators: up to MaxLines lines, each one   *)
(* of a few line texts, the last one with or without its newline          *)
(***************************************************************************)
RECURSIVE JoinLines(_)
JoinLines(ls) ==
    IF ls = <<>> THEN <<>>
    ELSE IF Len(ls) = 1 THEN Head(ls)
    ELSE Head(ls) \o <<NL>> \o JoinLines(Tail(ls))

StreamsOf(L) ==
    {JoinLines(ls) \o tail : ls \in SeqsUpTo(L, MaxLines), tail \in {<<>>, <<NL>>}}

ObjA == <<"{", Quote, "a", Quote, ":", "1", "}">>
ObjB == <<"{", Quote, "b", Quote, ":", "2", "}">>

\* lines of a newline-delimited JSON stream: arrays, an empty line, an
\* unfinished array and the number 0
JsonLineTexts ==
    { <<"[", "]">>, <<"[", "1", "]">>, <<"[", "[", "]", "]">>, <<>>, <<"[">>, <<"0">> }

\* lines of an event stream: a valid data line, a data line holding the
\* number 0, a payload that needs the recovery scan (a span that fails, then
\* two spans that parse with text between them), a payload without any span,
\* a line without the blank of the prefix, a blank line
SseLineTexts ==
    { DataPrefix \o ObjA,
      DataPrefix \o <<"0">>,
      DataPrefix \o <<"{", "g", "}">> \o ObjA \o <<"m">> \o ObjB,
      DataPrefix \o <<"{", "a", ":", "1">>,
      <<"d", "a", "t", "a", ":">> \o ObjB,
      <<" ">> }

ConInit ==
    /\ consumer \in {"handleStream", "handleSSEStream"}
    /\ streamText \in (IF consumer = "handleStream" THEN StreamsOf(JsonLineTexts)
                       ELSE StreamsOf(SseLineTexts))
    /\ pos = 0
    /\ partial = Null
    /\ events = <<>>
    /\ srcs = <<>>
    /\ lastChunk = <<>>
    /\ lastBatch = <<>>
    /\ heldBefore = Null
    /\ status = "running"
    /\ lastRead = "none"
    /\ buffer = <<>>
    /\ scans = 0
    /\ TwIdle

\* the generator handles the read result `read`, which carries `chunk`
Resume(read, chunk) ==
    /\ status = "running"
    /\ lastRead' = read
    /\ pos' = pos + Len(chunk)
    /\ IF consumer = "handleStream"
       THEN \E g \in {handleStreamStep(read, chunk, partial)} :
                /\ status' = g.status
                /\ partial' = g.partial
                /\ events' = events \o g.batch
                /\ srcs' = srcs \o g.srcs
                /\ lastBatch' = g.batch
                /\ UNCHANGED <<buffer, scans>>
       ELSE \E g \in {handleSSEStreamStep(read, chunk, buffer)} :
                /\ status' = g.status
                /\ buffer' = g.buffer
                /\ scans' = scans + g.scans
                /\ events' = events \o g.batch
                /\ UNCHANGED <<partial, srcs, lastBatch>>
    /\ UNCHANGED <<streamText, consumer, lastChunk, heldBefore, twVars>>

\* reader.read() resolves with { done: false, value }: the next k characters
\* (k = 0: a value that carries no bytes)
ReadValue(k) ==
    /\ pos + k <= Len(streamText)
    /\ Resume("value", SubSeq(streamText, pos + 1, pos + k))

\* reader.read() resolves with { done: true }
ReadDone == Resume("done", <<>>)

\* reader?.read() gives undefined
ReadAbsent == Resume("absent", <<>>)

ConNext ==
    \/ \E k \in 0..Len(streamText) : ReadValue(k)
    \/ ReadDone
    \/ ReadAbsent

SpecConsumer == ConInit /\ [][ConNext]_vars

(***************************************************************************)
(* Claims about the newline-JSON decoder                                   *)
(***************************************************************************)
\* the characters of s that are not line delimiters
RECURSIVE StripNL(_)
StripNL(s) ==
    IF s = <<>> THEN <<>>
    ELSE IF Head(s) = NL THEN StripNL(Tail(s))
    ELSE <<Head(s)>> \o StripNL(Tail(s))

Delivered == SubSeq(streamText, 1, pos)

\* a stream of the documented shape: every line is the text of a JSON array
\* (a truthy, structured value), the last line possibly without its newline
ObjectStream(t) ==
    \A i \in 1..Len(NonEmpty(Split(t, NL))) :
        LET v == JSONParse(NonEmpty(Split(t, NL))[i]) IN v.ok /\ v.d >= 1

\* C1: once the whole text has been delivered, in whatever chunks, the events
\* emitted over all the calls are the events of one call on the whole text
\* with a null partial, in the same order.  Stated on streams of the
\* documented shape, which the claim covers.
C1_ChunkBoundaryInvariance ==
    (ObjectStream(streamText) /\ pos = Len(streamText)) =>
        events = processRawChunkString(streamText, Null).events

\* C2: after any sequence of calls, the text of the lines delivered so far is
\* exactly the text the emitted events were parsed from followed by the held
\* partial: no call discarded a held partial or a line.  Stated on streams
\* of the documented shape, which the claim covers.
C2_NoTextDropped ==
    ObjectStream(streamText) =>
        Flatten(srcs) \o OrEmpty(partial) = StripNL(Delivered)

\* a text that is one JSON array or object (white space allowed)
SingleObject(t) ==
    LET v == JSONParse(t) IN v.ok /\ (v.d >= 1 \/ (v.n = -2 /\ v.c[1] = "{"))

\* exactly one call has consumed text so far, or none has
AfterFirstChunk == heldBefore.isNull /\ lastChunk = Delivered /\ events = lastBatch

\* C15: when the text of the stream is a single JSON object, delivered as a
\* first chunk of any length (0 and the whole text included) and the rest as
\* a second chunk, the two calls together emit exactly one event, the object.
C15_SplitPointInvariance ==
    [][(SingleObject(streamText) /\ AfterFirstChunk /\ pos' = Len(streamText))
           => events' = <<JSONParse(streamText)>>]_vars

C15_Witness ==
    /\ SingleObject(streamText)
    /\ pos = Len(streamText)
    /\ ~heldBefore.isNull
    /\ Len(heldBefore.str) > 1
    /\ Len(lastChunk) > 1
    /\ heldBefore.str \o lastChunk = streamText
    /\ events = <<JSONParse(streamText)>>

\* C16: a call with an empty chunk returns no events and leaves the held
\* partial as it was.
C16_EmptyChunkNoOp ==
    [][(pos' = pos) => (partial' = partial /\ events' = events)]_vars

(***************************************************************************)
(* Claims about handleStream and handleSSEStream                           *)
(***************************************************************************)
\* the values of the non-empty lines of t that parse, in line order
RECURSIVE ParsedValues(_)
ParsedValues(lines) ==
    IF lines = <<>> THEN <<>>
    ELSE LET v == JSONParse(Head(lines))
         IN  (IF v.ok THEN <<v>> ELSE <<>>) \o ParsedValues(Tail(lines))

LineValues(t) == ParsedValues(NonEmpty(Split(t, NL)))

\* the lines handleSSEStream has decoded: the complete lines delivered, and
\* after a normal end also the text after the last newline
Processed ==
    IF status = "returned" THEN Split(Delivered, NL) ELSE Front(Split(Delivered, NL))

\* the text after the last newline delivered
Leftover == LastOf(Split(Delivered, NL))

IsDataLine(line) == StartsWith(line, DataPrefix)

Payload(line) == Suffix(line, Len(DataPrefix))

\* s[i..j] is a non-nested brace span
IsSpan(s, i, j) ==
    /\ i < j
    /\ s[i] = "{"
    /\ s[j] = "}"
    /\ \A m \in (i + 1)..(j - 1) : s[m] \notin {"{", "}"}

SpanStarts(s) == {i \in 1..Len(s) : \E j \in 1..Len(s) : IsSpan(s, i, j)}

SpanAt(s, i) == SubSeq(s, i, CHOOSE j \in 1..Len(s) : IsSpan(s, i, j))

\* the spans of s that start at the indices `starts`, in order of occurrence
RECURSIVE SpansOf(_, _)
SpansOf(s, starts) ==
    IF starts = {} THEN <<>>
    ELSE LET i == CHOOSE a \in starts : \A b \in starts : a <= b
         IN  <<SpanAt(s, i)>> \o SpansOf(s, starts \ {i})

\* a data line whose payload fails to parse as a whole
FailingData(line) == IsDataLine(line) /\ ~JSONParse(Payload(line)).ok

\* a data line whose payload is valid JSON
ValidData(line) == IsDataLine(line) /\ JSONParse(Payload(line)).ok

\* a data line whose payload fails to parse and holds no span that parses
MalformedNoSpan(line) ==
    /\ FailingData(line)
    /\ \A i \in SpanStarts(Payload(line)) : ~JSONParse(SpanAt(Payload(line), i)).ok

NotMalformedNoSpan(line) == ~MalformedNoSpan(line)

\* the events the lines yield, line by line, where each line yields ev(line)
EventsBy(lines, ev(_)) == Flatten([i \in 1..Len(lines) |-> ev(lines[i])])

DecodedEvents(line) == DecodeLine(line).events

\* C11: an absent read result makes the generator (handleStream or
\* handleSSEStream) throw without yielding anything in that step, nothing but
\* an absent read makes it throw (in particular not a value without bytes),
\* and a generator that has thrown takes no further step.
C11_ProtocolErrorFatal ==
    /\ [][/\ (lastRead' = "absent" => (status' = "thrown" /\ events' = events))
          /\ (status' = "thrown" => lastRead' = "absent")]_vars
    /\ [](status = "thrown" => ~ENABLED ConNext)

C11_Witness ==
    /\ consumer = "handleStream"
    /\ status = "thrown"
    /\ lastRead = "absent"
    /\ events # <<>>
    /\ ~Falsy(partial)

\* C12: in handleSSEStream a data line whose payload neither parses nor holds
\* a span that parses yields nothing and changes nothing else: the events are
\* those of the decoded lines without such lines, and the generator throws
\* only on an absent read.
C12_DecodeFailureNonFatal ==
    (consumer = "handleSSEStream") =>
        /\ (status = "thrown" => lastRead = "absent")
        /\ events = EventsBy(SelectSeq(Processed, NotMalformedNoSpan), DecodedEvents)

C12_Witness ==
    /\ consumer = "handleSSEStream"
    /\ status = "running"
    /\ Len(Processed) = 2
    /\ MalformedNoSpan(Processed[1])
    /\ ValidData(Processed[2])
    /\ events = <<JSONParse(Payload(Processed[2]))>>

\* what C13 expects of a line: for a data line whose payload fails to parse,
\* the values of its non-nested brace spans that parse, in order of occurrence
RecoveredEvents(line) ==
    IF FailingData(line)
    THEN ParsedValues(SpansOf(Payload(line), SpanStarts(Payload(line))))
    ELSE DecodedEvents(line)

\* C13: when the payload of a data line fails to parse as a whole,
\* handleSSEStream yields one event for each non-nested brace span of the
\* payload that parses, in the order the spans occur, and skips the others.
C13_Recovery ==
    (consumer = "handleSSEStream") => events = EventsBy(Processed, RecoveredEvents)

C13_Witness ==
    /\ consumer = "handleSSEStream"
    /\ status = "running"
    /\ Len(Processed) = 1
    /\ FailingData(Processed[1])
    /\ Cardinality(SpanStarts(Payload(Processed[1]))) = 3
    /\ events = <<JSONParse(ObjA), JSONParse(ObjB)>>

\* what C14 expects of a line: a data line with a valid payload yields the
\* parsed payload and nothing else
BasicEvents(line) ==
    IF ValidData(line) THEN <<JSONParse(Payload(line))>> ELSE DecodedEvents(line)

\* C14: every line "data: <valid JSON>" yields exactly one event, the parsed
\* payload, and no recovery scan runs for it: the scans run are one for each
\* decoded data line whose payload fails to parse.
C14_SseBasic ==
    (consumer = "handleSSEStream") =>
        /\ events = EventsBy(Processed, BasicEvents)
        /\ scans = Cardinality({i \in DOMAIN Processed : FailingData(Processed[i])})

C14_Witness ==
    /\ consumer = "handleSSEStream"
    /\ status = "running"
    /\ Len(Processed) = 2
    /\ Processed[1] = DataPrefix \o ObjA
    /\ Processed[2] = DataPrefix \o <<"0">>
    /\ events = <<JSONParse(ObjA), JSONParse(<<"0">>)>>
    /\ scans = 0

\* C17: the events handleStream has yielded are the values of the lines
\* delivered so far, in line order (on streams whose lines are all JSON
\* arrays), and a chunk of complete lines arriving while no partial is held
\* has all of its events yielded by that one step, in line order.
C17_EventOrder ==
    [][(consumer = "handleStream") =>
          /\ ObjectStream(streamText) => events' = LineValues(SubSeq(streamText, 1, pos'))
          /\ (partial.isNull /\ lastRead' = "value"
                  /\ ObjectStream(SubSeq(streamText, pos + 1, pos')))
                 => events' = events \o LineValues(SubSeq(streamText, pos + 1, pos'))]_vars

C17_Witness ==
    /\ consumer = "handleStream"
    /\ status = "running"
    /\ ObjectStream(streamText)
    /\ Len(events) = 2
    /\ Len(lastBatch) = 2
    /\ lastBatch[1] # lastBatch[2]

\* C18: when a read reports done, handleStream finishes normally and yields
\* nothing in that step, whatever partial it holds; once finished it takes no
\* further step.
C18_NormalEnd ==
    /\ [][(consumer = "handleStream" /\ lastRead' = "done")
              => (status' = "returned" /\ events' = events /\ lastBatch' = <<>>)]_vars
    /\ []((consumer = "handleStream" /\ status = "returned") => ~ENABLED ConNext)

C18_Witness ==
    /\ consumer = "handleStream"
    /\ lastRead = "done"
    /\ status = "returned"
    /\ partial = Some(<<"[">>)
    /\ events # <<>>

\* what C19 expects of the text left in the line buffer at the end
FinalFlushEvents(text) == IF IsDataLine(text) THEN DecodedEvents(text) ELSE <<>>

\* C19: when the reader reports done, handleSSEStream decodes the text after
\* the last newline as it decodes a line, once, if that text starts with the
\* prefix, yields those events after the earlier ones and finishes; otherwise
\* it yields nothing.
C19_FinalFlush ==
    /\ [][(consumer = "handleSSEStream" /\ lastRead' = "done")
              => (status' = "returned" /\ events' = events \o FinalFlushEvents(Leftover))]_vars
    /\ []((consumer = "handleSSEStream" /\ status = "returned") => ~ENABLED ConNext)

C19_Witness ==
    /\ consumer = "handleSSEStream"
    /\ lastRead = "done"
    /\ status = "returned"
    /\ FailingData(Leftover)
    /\ events = <<JSONParse(ObjA), JSONParse(ObjA), JSONParse(ObjB)>>

\* C20: a line that does not start with "data: " yields nothing and changes
\* nothing else: the events are those of the decoded data lines alone.
C20_NonDataIgnored ==
    (consumer = "handleSSEStream") =>
        events = EventsBy(SelectSeq(Processed, IsDataLine), DecodedEvents)

C20_Witness ==
    /\ consumer = "handleSSEStream"
    /\ status = "running"
    /\ Len(Processed) = 2
    /\ Processed[1] = Front(DataPrefix) \o ObjB
    /\ ValidData(Processed[2])
    /\ events = <<JSONParse(ObjA)>>

(***************************************************************************)
(* Claims about the typewriter                                             *)
(***************************************************************************)
NoPendingTimer == BagCardinality(timers) = 0

\* C3: for one message identity, while every content update extends the
\* previous content, no event lowers currentTypingIndexRef.
C3_RevealIndexMonotone ==
    [][(mounted /\ mounted' /\ messageId' = messageId /\ StartsWith(content', content))
           => currentTypingIndexRef' >= currentTypingIndexRef]_vars

\* C4: while the completion flag is set for the content, the component shows
\* exactly the content and typing is marked complete, whatever ticks,
\* visibility events or earlier updates came before.
C4_Convergence ==
    (mounted /\ isComplete) => (displayedContent = content /\ isTypingComplete)

\* a timer left over from before the completion has fired after it
C4_Witness ==
    /\ mounted
    /\ isComplete
    /\ lastOp = "tick"
    /\ Len(content) > 1
    /\ displayedContent = content

\* C5: once an update (or the first render) with the completion flag set has
\* been processed, displayed is the content, the reveal index is its length,
\* typing is marked complete and no reveal timer is pending.
C5_CompletionTransition ==
    (mounted /\ isComplete /\ lastOp \in {"mount", "update"}) =>
        /\ displayedContent = content
        /\ currentTypingIndexRef = Len(content)
        /\ isTypingComplete
        /\ NoPendingTimer

\* C6: a tick that fires after the stop signal changes neither displayed nor
\* the reveal index.
C6_StopCancelsTicks ==
    [][(lastOp = "stop" /\ lastOp' = "tick")
           => (displayedContent' = displayedContent
               /\ currentTypingIndexRef' = currentTypingIndexRef)]_vars

\* C7: an update whose content does not extend the content seen before starts
\* the reveal of the new content: a tick for it is scheduled, unless its one
\* character is already shown.
C7_ResetStartsTyping ==
    [][(mounted /\ lastOp' = "update" /\ ~typingDisabledRef /\ ~shared /\ ~isComplete'
            /\ content' # <<>> /\ ~StartsWith(content', lastContentRef))
           => \/ \E clo \in BagToSet(timers') :
                     clo.fullContent \in {content', filterCitationsForTyping(content')}
              \/ displayedContent' = filterCitationsForTyping(content')]_vars

\* the message id is one whose flag the store holds when the component mounts
FlaggedMount ==
    ~mounted /\ mounted' /\ messageId' # NoId /\ messageId' \in sessionStorage

\* C8 as claimed: a component mounted for a flagged key shows the content at
\* once, schedules no reveal tick and is marked complete.
C8_FlaggedMountCompletes ==
    [][FlaggedMount =>
           /\ displayedContent' = content'
           /\ BagCardinality(timers') = 0
           /\ isTypingComplete']_vars

\* C8 amended: a component mounted for a flagged key shows the content at
\* once and schedules no reveal tick; it is marked complete exactly when the
\* completion flag (isComplete or shared) is set at that mount.
C8_InterruptPersistence ==
    [][FlaggedMount =>
           /\ displayedContent' = content'
           /\ BagCardinality(timers') = 0
           /\ ~isTypingRef'
           /\ isTypingComplete' = (isComplete' \/ shared')]_vars

\* a flagged key was remounted with a text of several characters that is
\* still streaming: shown in full, nothing scheduled
C8_Witness ==
    /\ lastOp = "mount"
    /\ typingDisabledRef
    /\ ~isComplete
    /\ Len(content) > 1
    /\ displayedContent = content
    /\ NoPendingTimer

\* C9: while the component whose typing has completed stays mounted, the
\* store holds no flag for its key.
C9_FlagClearedAtCompletion ==
    (mounted /\ isTypingComplete /\ messageId # NoId) => messageId \notin sessionStorage

\* C10: a flag enters the store only when the component unmounts while its
\* typing is incomplete, and then for its own key.
C10_OnlyUnmountWritesFlag ==
    [][sessionStorage' # sessionStorage /\ ~(sessionStorage' \subseteq sessionStorage)
           => /\ mounted /\ ~mounted'
              /\ ~isTypingComplete
              /\ sessionStorage' = sessionStorage \cup {messageId}]_vars

(***************************************************************************)
(* Claims about visibility, citations, completion, extension and reset     *)
(***************************************************************************)
\* C21: when the tab becomes visible while typing is incomplete, the reveal
\* index is below the content length and no tick is scheduled, the index is
\* not lowered and revealing goes on: a tick is scheduled or the index has
\* advanced.
C21_VisibleResumes ==
    [][(mounted /\ lastOp' = "visible" /\ ~isTypingComplete /\ ~typingDisabledRef
            /\ currentTypingIndexRef < Len(content) /\ NoPendingTimer)
           => /\ currentTypingIndexRef' >= currentTypingIndexRef
              /\ (~NoPendingTimer' \/ currentTypingIndexRef' > currentTypingIndexRef)]_vars

\* displayed is the whole content
CaughtUp == displayedContent = content

\* C22: hiding the tab while displayed lags the content leaves the pending
\* timers, the reveal index, displayed and the complete flag as they were;
\* hiding it when displayed has caught up with the content sets displayed to
\* the content and marks typing complete.
C22_HiddenFrame ==
    [][(mounted /\ lastOp' = "hidden") =>
           IF CaughtUp
           THEN displayedContent' = content /\ isTypingComplete'
           ELSE ~isTypingComplete =>
                    UNCHANGED <<timers, currentTypingIndexRef, displayedContent,
                                isTypingComplete>>]_vars

\* C23: after a tick of a reveal that has not been completed, displayed is a
\* prefix of the content with its citation markers removed, whatever content
\* updates came before.
C23_NoPartialCitation ==
    [][(mounted /\ lastOp' = "tick" /\ ~isTypingComplete' /\ ~typingDisabledRef'
            /\ displayedContent' # displayedContent)
           => StartsWith(filterCitationsForTyping(content'), displayedContent')]_vars

\* a completion signal is processed in this step: the completion flag is set
\* at an update, or the stop or message-switcher signal arrives
CompletionSignal ==
    \/ lastOp' = "update" /\ isComplete'
    \/ lastOp' \in {"stop", "switch"}

\* C24: a completion signal for the content that is already shown in full
\* and marked complete changes neither displayed, the reveal index, the
\* complete flag nor the pending timers.
C24_CompletionIdempotent ==
    [][(mounted /\ isTypingComplete /\ CaughtUp /\ content' = content /\ CompletionSignal)
           => UNCHANGED <<displayedContent, currentTypingIndexRef, isTypingComplete,
                          timers>>]_vars

\* the content has been extended while the reveal of a prefix of it is in
\* flight: its one pending tick holds the shorter text
InFlightExtension ==
    /\ mounted
    /\ ~isComplete /\ ~shared /\ ~isTypingComplete /\ ~typingDisabledRef
    /\ isTypingRef
    /\ BagCardinality(timers) = 1
    /\ timeoutRef # NoTimer
    /\ BagIn(timeoutRef, timers)
    /\ timeoutRef.fullContent # content
    /\ StartsWith(content, timeoutRef.fullContent)
    /\ lastContentRef = content
    /\ currentTypingIndexRef = timeoutRef.currentIndex

\* C26: a tick of a reveal whose content has been extended in flight goes on
\* from the current index, and either leaves a further tick scheduled or has
\* brought displayed to the end of the extended content.
C26_ExtensionWhileTyping ==
    [][(InFlightExtension /\ lastOp' = "tick")
           => /\ currentTypingIndexRef' = currentTypingIndexRef + 1
              /\ \/ ~NoPendingTimer'
                 \/ displayedContent' = filterCitationsForTyping(content')]_vars

\* the content is not an extension of the text any pending tick was
\* scheduled for, and the content effect has processed it
TicksOfPreviousContent ==
    /\ mounted
    /\ ~typingDisabledRef
    /\ lastContentRef = content
    /\ ~NoPendingTimer
    /\ \A clo \in BagToSet(timers) : ~StartsWith(content, clo.fullContent)

\* C27: after a reset, a tick scheduled for the previous content neither
\* changes displayed nor the reveal index, and displayed stays a prefix of
\* the new content.
C27_ResetReplacesState ==
    [][(TicksOfPreviousContent /\ lastOp' = "tick")
           => /\ displayedContent' = displayedContent
              /\ currentTypingIndexRef' = currentTypingIndexRef
              /\ StartsWith(filterCitationsForTyping(content'), displayedContent')]_vars

\* a tick brings displayed to the end of the content
TickCatchesUp ==
    /\ mounted
    /\ lastOp' = "tick"
    /\ currentTypingIndexRef' = currentTypingIndexRef + 1
    /\ displayedContent' = filterCitationsForTyping(content')

\* C28 as claimed: the tick that brings the reveal to the end of the content
\* marks typing complete.
C28_CatchUpCompletes ==
    [][TickCatchesUp => isTypingComplete']_vars

\* C28 amended: the tick that brings the reveal to the end of the content
\* ends the loop (isTypingRef false, no further tick scheduled) and leaves the
\* complete flag as it was; no tick changes the complete flag.
C28_CatchUpEndsLoop ==
    [][(mounted /\ lastOp' = "tick") =>
           /\ isTypingComplete' = isTypingComplete
           /\ TickCatchesUp =>
                  (~isTypingRef' /\ BagCardinality(timers') < BagCardinality(timers))]_vars

\* the last tick of a text of several characters has fired and nothing has
\* signalled completion
C28_Witness ==
    /\ mounted
    /\ lastOp = "tick"
    /\ ~isComplete /\ ~shared
    /\ Len(content) > 1
    /\ displayedContent = content
    /\ currentTypingIndexRef = Len(content)
    /\ NoPendingTimer
    /\ ~isTypingRef
    /\ ~isTypingComplete

\* C29: when a component that was mounted for a flagged key (typing
\* disabled) unmounts while its typing is not marked complete, the store
\* holds the flag of its key afterwards.
C29_FlagKeptOnEarlyTeardown ==
    [][(mounted /\ ~mounted' /\ typingDisabledRef /\ ~isTypingComplete
            /\ messageId # NoId)
           => messageId \in sessionStorage']_vars

\* a component mounted for a flagged key is mirroring a text that is still
\* streaming: its teardown is the case of C29
C29_Witness ==
    /\ mounted
    /\ typingDisabledRef
    /\ messageId # NoId
    /\ messageId \in sessionStorage
    /\ ~isTypingComplete
    /\ lastOp = "update"
    /\ displayedContent = content
    /\ Len(content) > 1

(***************************************************************************)
(* Claims about chunking in handleStream and handleSSEStream               *)
(***************************************************************************)
\* the values of the lines that have not been read yet
Unread == LineValues(SubSeq(streamText, pos + 1, Len(streamText)))

\* C25: on a stream of the documented shape, a read that carries text and
\* leaves lines to be read does not end the iteration of handleStream, and
\* once the whole text has been
\* read and the reader reports done, the batches yielded are together the
\* values of all the lines, in order.
C25_NoEventLostToChunking ==
    [][(consumer = "handleStream" /\ ObjectStream(streamText)) =>
           /\ (lastRead' = "value" /\ pos' > pos /\ Unread' # <<>>)
                  => status' = "running"
           /\ (lastRead' = "done" /\ pos' = Len(streamText))
                  => events' = LineValues(streamText)]_vars

\* the events of handleSSEStream on the text t delivered as one chunk and
\* then done
OneChunkEvents(t) ==
    LET g == handleSSEStreamStep("value", t, <<>>)
    IN  g.batch \o handleSSEStreamStep("done", <<>>, g.buffer).batch

\* C30: once handleSSEStream has read the whole text, in whatever chunks, and
\* then done, the events it yielded are those it yields when the whole text
\* is one chunk, in the same order.
C30_SseChunkInvariance ==
    (consumer = "handleSSEStream" /\ status = "returned" /\ pos = Len(streamText))
        => events = OneChunkEvents(streamText)

\* a text of two lines, the second without its newline, has been read to
\* the end: events came from the loop and from the final flush
C30_Witness ==
    /\ consumer = "handleSSEStream"
    /\ status = "returned"
    /\ pos = Len(streamText)
    /\ Len(Split(streamText, NL)) = 2
    /\ buffer # <<>>
    /\ Len(events) >= 3

====
